---- MODULE Spec2Model ----
(***************************************************************************)
(* Model of src/src/latin_square.rs: the Jacobson-Matthews random walk     *)
(* over an incidence cube (IncidenceCube) and the LatinSquare              *)
(* constructors built on it.                                               *)
(*                                                                         *)
(* Vec<Vec<..>> values are functions over 0..len-1 (Rust indices).         *)
(* Option<T> is a sequence of length 0 (None) or 1 (Some(v)).              *)
(* A panic is an outcome: pc = "panic" with the reason in `panic`.         *)
(***************************************************************************)
EXTENDS Integers, Sequences, FiniteSets, TLC

VARIABLES
    size,           \* the `dimensions` argument / IncidenceCube.size
    cube,           \* IncidenceCube.cube[x][y][z]
    improper_cell,  \* IncidenceCube.improper_cell : Option<Coordinate>
    i,              \* number of iterations done by the for loop of shuffle
    square,         \* LatinSquare.square returned to the caller
    pc,             \* position of the caller in new_random / new_cyclic
    panic           \* "" or the reason the program panicked

vars == <<size, cube, improper_cell, i, square, pc, panic>>

\* Largest order the model draws for `dimensions`.
MaxN == 3

None == << >>
Some(v) == <<v>>

Idx(n) == 0 .. (n - 1)

\* A `let` binding: F(v), with v evaluated once.
Bind(v, F(_)) == CHOOSE r \in {F(x) : x \in {v}} : TRUE

(***************************************************************************)
(* CubeEntry                                                               *)
(***************************************************************************)
CubeEntry == {"On", "Off", "Improper"}

\* toggle_off that leaves an Off entry Off.
toggle_off_floor(e) ==
    CASE e = "On" -> "Off"
      [] e = "Off" -> "Off"
      [] OTHER -> "panic"

\* A panicking call yields the pseudo entry "panic".
toggle_off(e) ==
    CASE e = "On" -> "Off"
      [] e = "Off" -> "Improper"
      [] OTHER -> "panic"

\* toggle_on that takes an Improper entry straight to On.
toggle_on_skipping_off(e) ==
    CASE e = "Off" -> "On"
      [] e = "Improper" -> "On"
      [] OTHER -> "panic"

toggle_on(e) ==
    CASE e = "Off" -> "On"
      [] e = "Improper" -> "Off"
      [] OTHER -> "panic"

as_int(e) ==
    CASE e = "On" -> 1
      [] e = "Off" -> 0
      [] OTHER -> 0 - 1

(***************************************************************************)
(* Coordinate                                                              *)
(***************************************************************************)
SearchCoord == {"X", "Y", "Z"}

Coordinate(px, py, pz) == [x |-> px, y |-> py, z |-> pz]

increment(c, coord) ==
    CASE coord = "X" -> [c EXCEPT !.x = @ + 1]
      [] coord = "Y" -> [c EXCEPT !.y = @ + 1]
      [] OTHER -> [c EXCEPT !.z = @ + 1]

search_axis(c, coord) ==
    CASE coord = "X" -> c.x
      [] coord = "Y" -> c.y
      [] OTHER -> c.z

\* init_for_search that leaves the searched coordinate where the caller put it.
init_for_search_from_argument(px, py, pz, search) == Coordinate(px, py, pz)

init_for_search(px, py, pz, search) ==
    CASE search = "X" -> Coordinate(0, py, pz)
      [] search = "Y" -> Coordinate(px, 0, pz)
      [] OTHER -> Coordinate(px, py, 0)

(***************************************************************************)
(* LatinSquare                                                             *)
(***************************************************************************)
\* value_initializer is the fn(usize, usize, usize) -> usize argument, a
\* function of <<dimensions, colnum, rownum>>.
new_square(dimensions, value_initializer) ==
    [rownum \in Idx(dimensions) |->
        [colnum \in Idx(dimensions) |-> value_initializer[dimensions, colnum, rownum]]]

\* The closure of LatinSquare::new_cyclic.
cyclic_initializer ==
    [dimensions \in Nat, colnum \in Nat, rownum \in Nat |->
        ((colnum + rownum) % (dimensions - 1)) + 1]

LatinSquare_new_cyclic(dimensions) == new_square(dimensions, cyclic_initializer)

\* The closure of LatinSquare::new_empty.
empty_initializer == [dimensions \in Nat, colnum \in Nat, rownum \in Nat |-> 0]

new_empty(dimensions) == new_square(dimensions, empty_initializer)

(***************************************************************************)
(* IncidenceCube                                                           *)
(***************************************************************************)
\* new_cyclic with the On symbol of every cell shifted by one.
new_cyclic_shifted(dimensions) ==
    [rownum \in Idx(dimensions) |->
        [colnum \in Idx(dimensions) |->
            [symbolnum \in Idx(dimensions) |->
                IF symbolnum = (colnum + rownum + 1) % dimensions THEN "On" ELSE "Off"]]]

new_cyclic(dimensions) ==
    [rownum \in Idx(dimensions) |->
        [colnum \in Idx(dimensions) |->
            [symbolnum \in Idx(dimensions) |->
                IF symbolnum = (colnum + rownum) % dimensions THEN "On" ELSE "Off"]]]

\* scan_symbols that stops at the first On cell of the column.
RECURSIVE scan_symbols_first_wins(_, _, _, _)
scan_symbols_first_wins(col, n, symbolposition, cur) ==
    IF symbolposition >= n THEN cur
    ELSE IF col[symbolposition] = "On" THEN symbolposition
    ELSE scan_symbols_first_wins(col, n, symbolposition + 1, cur)

\* scan_symbols recording symbols counted from 1, as LatinSquare::new_cyclic does.
RECURSIVE scan_symbols_one_based(_, _, _, _)
scan_symbols_one_based(col, n, symbolposition, cur) ==
    IF symbolposition >= n THEN cur
    ELSE scan_symbols_one_based(col, n, symbolposition + 1,
                                IF col[symbolposition] = "On" THEN symbolposition + 1 ELSE cur)

\* The inner loop of as_latin_square over one column col = cube[rownum][colnum]:
\* cur is square[rownum][colnum] so far, symbolposition the next index read.
RECURSIVE scan_symbols(_, _, _, _)
scan_symbols(col, n, symbolposition, cur) ==
    IF symbolposition >= n THEN cur
    ELSE scan_symbols(col, n, symbolposition + 1,
                      IF col[symbolposition] = "On" THEN symbolposition ELSE cur)

as_latin_square(c, n) ==
    [rownum \in Idx(n) |->
        [colnum \in Idx(n) |->
            scan_symbols(c[rownum][colnum], n, 0, new_empty(n)[rownum][colnum])]]

\* Result of find_on_cell_along_axis: res is "Some" (pos holds the cell found),
\* "None", or "index out of bounds" (the panic of cube[..][..][..]).
RECURSIVE find_on_cell_along_axis(_, _, _, _)
find_on_cell_along_axis(c, n, search_pos, search_coord) ==
    IF search_pos.x >= n \/ search_pos.y >= n \/ search_pos.z >= n
    THEN [res |-> "index out of bounds", pos |-> search_pos]
    ELSE IF c[search_pos.x][search_pos.y][search_pos.z] = "On"
    THEN [res |-> "Some", pos |-> search_pos]
    ELSE IF search_axis(search_pos, search_coord) = n
    THEN [res |-> "None", pos |-> search_pos]
    ELSE find_on_cell_along_axis(c, n, increment(search_pos, search_coord), search_coord)

\* take_first is the Option<bool> argument, coin the outcome gen_bool(0.5) would
\* have (read only when take_first is None).  Result: [panic, val].
pick_coordinate(c, n, px, py, pz, search_coord, take_first, coin) ==
    LET search_pos == init_for_search(px, py, pz, search_coord)
        take == IF take_first = None THEN coin ELSE take_first[1]
        first_result == find_on_cell_along_axis(c, n, search_pos, search_coord)
    IN  IF first_result.res = "index out of bounds"
        THEN [panic |-> "index out of bounds", val |-> 0]
        ELSE IF first_result.res = "Some" /\ take
        THEN [panic |-> "", val |-> search_axis(first_result.pos, search_coord)]
        ELSE IF ~take
        THEN LET second == find_on_cell_along_axis(
                               c, n, increment(first_result.pos, search_coord), search_coord)
             IN  CASE second.res = "Some" ->
                        [panic |-> "", val |-> search_axis(second.pos, search_coord)]
                   [] second.res = "None" ->
                        [panic |-> "unwrap on None", val |-> 0]
                   [] OTHER ->
                        [panic |-> "index out of bounds", val |-> 0]
        ELSE [panic |-> "Couldn't find 'On' point along cube axis", val |-> 0]

\* cells_on with the second cell taken at origin.z instead of new.z.
cells_on_wrong_z(origin, new) ==
    << Coordinate(origin.x, origin.y, origin.z),
       Coordinate(origin.x, new.y, origin.z),
       Coordinate(new.x, new.y, origin.z),
       Coordinate(new.x, origin.y, new.z) >>

\* The cells move_cell switches on, in the order of the first for loop.
cells_on(origin, new) ==
    << Coordinate(origin.x, origin.y, origin.z),
       Coordinate(origin.x, new.y, new.z),
       Coordinate(new.x, new.y, origin.z),
       Coordinate(new.x, origin.y, new.z) >>

\* cells_off with the last cell taken at origin.z instead of new.z.
cells_off_wrong_z(origin, new) ==
    << Coordinate(origin.x, origin.y, new.z),
       Coordinate(origin.x, new.y, origin.z),
       Coordinate(new.x, origin.y, origin.z),
       Coordinate(new.x, new.y, origin.z) >>

\* The cells move_cell switches off, in the order of the second for loop.
cells_off(origin, new) ==
    << Coordinate(origin.x, origin.y, new.z),
       Coordinate(origin.x, new.y, origin.z),
       Coordinate(new.x, origin.y, origin.z),
       Coordinate(new.x, new.y, new.z) >>

\* One for loop of move_cell: toggles the cells in order, stops at a panic
\* (the cube then stays as the panic found it).
RECURSIVE toggle_cells(_, _, _, _)
toggle_cells(c, cells, k, on) ==
    IF k > Len(cells) THEN [panic |-> "", cube |-> c]
    ELSE LET p == cells[k]
             e == IF on THEN toggle_on(c[p.x][p.y][p.z]) ELSE toggle_off(c[p.x][p.y][p.z])
         IN  IF e = "panic"
             THEN [panic |-> IF on THEN "cannot turn on cell that is already on"
                                   ELSE "Cannot turn off improper cell",
                   cube |-> c]
             ELSE Bind([c EXCEPT ![p.x][p.y][p.z] = e],
                       LAMBDA next : toggle_cells(next, cells, k + 1, on))

\* improper_update that never records an improper cell.
improper_update_never(c, new) == None

\* improper_update that tests the cell for Off instead of Improper.
improper_update_on_off(c, new) ==
    IF c[new.x][new.y][new.z] = "Off" THEN Some(new) ELSE None

\* The final if of move_cell.
improper_update(c, new) ==
    IF c[new.x][new.y][new.z] = "Improper" THEN Some(new) ELSE None

\* move_cell, the match on self.improper_cell: the origin of the move.
origin_of(imp, zero_cell) == IF imp # None THEN imp[1] ELSE zero_cell

\* use_first_occurence with the two arms exchanged: coins while proper, the
\* first occurrence while improper.
use_first_occurence_swapped(imp) == IF imp # None THEN Some(TRUE) ELSE None

\* use_first_occurence that never flips a coin.
use_first_occurence_always(imp) == Some(TRUE)

\* move_cell, the match on self.improper_cell: the take_first argument of the
\* three pick_coordinate calls.
use_first_occurence(imp) == IF imp # None THEN None ELSE Some(TRUE)

\* move_cell from the three pick_coordinate calls on: ufo is the take_first
\* argument, coins the outcomes the three gen_bool calls would have.
move_from(c, n, imp, origin, ufo, coins) ==
    LET nx == pick_coordinate(c, n, 0, origin.y, origin.z, "X", ufo, coins[1])
        ny == pick_coordinate(c, n, origin.x, 0, origin.z, "Y", ufo, coins[2])
        nz == pick_coordinate(c, n, origin.x, origin.y, 0, "Z", ufo, coins[3])
        failed(why, at) == [panic |-> why, cube |-> at, improper_cell |-> imp]
        after_off(new, off) ==
            IF off.panic # "" THEN failed(off.panic, off.cube)
            ELSE [panic |-> "", cube |-> off.cube,
                  improper_cell |-> improper_update(off.cube, new)]
        after_on(new, on) ==
            IF on.panic # "" THEN failed(on.panic, on.cube)
            ELSE Bind(toggle_cells(on.cube, cells_off(origin, new), 1, FALSE),
                      LAMBDA off : after_off(new, off))
        toggle(new) ==
            Bind(toggle_cells(c, cells_on(origin, new), 1, TRUE),
                 LAMBDA on : after_on(new, on))
    IN  IF nx.panic # "" THEN failed(nx.panic, c)
        ELSE IF ny.panic # "" THEN failed(ny.panic, c)
        ELSE IF nz.panic # "" THEN failed(nz.panic, c)
        ELSE Bind(Coordinate(nx.val, ny.val, nz.val), toggle)

\* move_cell on cube c with improper_cell imp.  zero_cell is the cell
\* find_off_cell returned (read only when imp is None), coins the outcomes of
\* the three gen_bool calls (read only when imp is Some).  A panic leaves the
\* cube as it was when the panic was raised.
move_cell(c, n, imp, zero_cell, coins) ==
    move_from(c, n, imp, origin_of(imp, zero_cell), use_first_occurence(imp), coins)

(***************************************************************************)
(* The program: a caller invokes LatinSquare::new_random(size) or          *)
(* LatinSquare::new_cyclic(size).                                          *)
(***************************************************************************)
Init ==
    /\ size \in 0 .. MaxN
    /\ cube = << >>
    /\ improper_cell = None
    /\ i = 0
    /\ square = << >>
    /\ pc = "start"
    /\ panic = ""

\* new_random, first statement: IncidenceCube::new_cyclic(dimensions).
NewRandomConstruct ==
    /\ pc = "start"
    /\ cube' = new_cyclic(size)
    /\ improper_cell' = None
    /\ i' = 0
    /\ pc' = "shuffle"
    /\ UNCHANGED <<size, square, panic>>

\* The state change of one self.move_cell() call inside shuffle.  While
\* improper_cell is None, find_off_cell samples (x, y, z) until the cell is
\* Off: a sample that is not Off leaves the state as it is (the loop retries).
MoveCellCall(count) ==
    IF improper_cell = None
    THEN \E x \in Idx(size), y \in Idx(size), z \in Idx(size) :
            IF cube[x][y][z] = "Off"
            THEN \E r \in {move_cell(cube, size, improper_cell, Coordinate(x, y, z),
                                    <<TRUE, TRUE, TRUE>>)} :
                     /\ cube' = r.cube
                     /\ improper_cell' = r.improper_cell
                     /\ panic' = r.panic
                     /\ pc' = IF r.panic = "" THEN pc ELSE "panic"
                     /\ i' = i + count
                     /\ UNCHANGED <<size, square>>
            ELSE UNCHANGED vars
    ELSE \E coins \in BOOLEAN \X BOOLEAN \X BOOLEAN :
            \E r \in {move_cell(cube, size, improper_cell, Coordinate(0, 0, 0), coins)} :
                /\ cube' = r.cube
                /\ improper_cell' = r.improper_cell
                /\ panic' = r.panic
                /\ pc' = IF r.panic = "" THEN pc ELSE "panic"
                /\ i' = i + count
                /\ UNCHANGED <<size, square>>

\* shuffle, one iteration of `for _ in 0..size^3`.
ShuffleMix ==
    /\ pc = "shuffle"
    /\ i < size * size * size
    /\ MoveCellCall(1)

\* shuffle, one iteration of the trailing loop with improper_cell Some.
ShuffleCleanup ==
    /\ pc = "shuffle"
    /\ i = size * size * size
    /\ improper_cell # None
    /\ MoveCellCall(0)

\* shuffle as a single while loop: returns as soon as no cell is improper.
ShuffleReturn_when_proper ==
    /\ pc = "shuffle"
    /\ improper_cell = None
    /\ pc' = "shuffled"
    /\ UNCHANGED <<size, cube, improper_cell, i, square, panic>>

\* shuffle, the break of the trailing loop: shuffle returns.
ShuffleReturn ==
    /\ pc = "shuffle"
    /\ i = size * size * size
    /\ improper_cell = None
    /\ pc' = "shuffled"
    /\ UNCHANGED <<size, cube, improper_cell, i, square, panic>>

\* new_random, last statement: cube.as_latin_square().
NewRandomReturn ==
    /\ pc = "shuffled"
    /\ square' = as_latin_square(cube, size)
    /\ pc' = "done"
    /\ UNCHANGED <<size, cube, improper_cell, i, panic>>

\* LatinSquare::new_cyclic(size).  With size = 1 the closure is called and
\* computes a remainder by dimensions - 1 = 0, which panics; with size = 0 the
\* closure is never called.
NewCyclicCall ==
    /\ pc = "start"
    /\ IF size = 1
       THEN /\ pc' = "panic"
            /\ panic' = "remainder with a divisor of zero"
            /\ UNCHANGED square
       ELSE /\ square' = LatinSquare_new_cyclic(size)
            /\ pc' = "cyclic"
            /\ UNCHANGED panic
    /\ UNCHANGED <<size, cube, improper_cell, i>>

Next ==
    \/ NewRandomConstruct
    \/ ShuffleMix
    \/ ShuffleCleanup
    \/ ShuffleReturn
    \/ NewRandomReturn
    \/ NewCyclicCall

Spec == Init /\ [][Next]_vars

(***************************************************************************)
(* Fairness.  The loops of shuffle keep running; find_off_cell samples     *)
(* uniformly, so it returns whenever an Off cell exists; each of the three *)
(* coins of a move from an improper cube is fair, so a triple of outcomes  *)
(* that empties improper_cell is drawn eventually whenever every improper  *)
(* cube met in the trailing loop has one.                                  *)
(***************************************************************************)
CleanupResolves == ShuffleCleanup /\ improper_cell' = None

FairSpec ==
    /\ Spec
    /\ WF_vars(ShuffleMix)
    /\ WF_vars(CleanupResolves)
    /\ WF_vars(ShuffleReturn)
    /\ WF_vars(NewRandomReturn)

(***************************************************************************)
(* Vocabulary of the properties                                            *)
(***************************************************************************)
\* new_random(size) has built its cube, for an order the properties cover.
Walked == size >= 2 /\ pc \in {"shuffle", "shuffled", "done", "panic"}

Cells(n) == {Coordinate(x, y, z) : x \in Idx(n), y \in Idx(n), z \in Idx(n)}

At(c, p) == c[p.x][p.y][p.z]

\* The cells of cube c in state e.
CellsIn(c, n, e) ==
    {Coordinate(t[1], t[2], t[3]) :
        t \in {u \in Idx(n) \X Idx(n) \X Idx(n) : c[u[1]][u[2]][u[3]] = e}}

\* The cell at index k of the line along `axis` through p.
OnLine(p, axis, k) ==
    CASE axis = "X" -> Coordinate(k, p.y, p.z)
      [] axis = "Y" -> Coordinate(p.x, k, p.z)
      [] OTHER -> Coordinate(p.x, p.y, k)

\* The indices of the On cells of the line along `axis` through p.
OnAlong(c, n, p, axis) == {k \in Idx(n) : At(c, OnLine(p, axis, k)) = "On"}

\* The number of On cells of the line along `axis` whose two other coordinates
\* are a and b (in the order x, y, z).
OnCountOfLine(c, n, axis, a, b) ==
    CASE axis = "X" -> Cardinality({k \in Idx(n) : c[k][a][b] = "On"})
      [] axis = "Y" -> Cardinality({k \in Idx(n) : c[a][k][b] = "On"})
      [] OTHER -> Cardinality({k \in Idx(n) : c[a][b][k] = "On"})

Proper(c, n) ==
    /\ \A x \in Idx(n), y \in Idx(n), z \in Idx(n) : c[x][y][z] # "Improper"
    /\ \A axis \in SearchCoord, a \in Idx(n), b \in Idx(n) :
          OnCountOfLine(c, n, axis, a, b) = 1

\* sq is an n x n grid whose rows and columns are permutations of symbols.
IsLatin(sq, n, symbols) ==
    /\ DOMAIN sq = Idx(n)
    /\ \A r \in Idx(n) : DOMAIN sq[r] = Idx(n)
    /\ \A r \in Idx(n) : {sq[r][c] : c \in Idx(n)} = symbols
    /\ \A c \in Idx(n) : {sq[r][c] : r \in Idx(n)} = symbols

(***************************************************************************)
(* Properties                                                              *)
(***************************************************************************)

\* C1: for every order n >= 2 the square new_random(n) returns is a latin
\* square: every row and every column is a permutation of 0..n-1.
C1_RandomIsLatin ==
    (pc = "done" /\ size >= 2) => IsLatin(square, size, Idx(size))

\* new_random(3) returned a square other than the cyclic one it started from.
C1_Witness ==
    /\ pc = "done"
    /\ size = 3
    /\ square # as_latin_square(new_cyclic(3), 3)

\* C2: in every state of the walk, improper_cell = None implies the cube is
\* proper: no Improper cell and exactly one On cell on every line of every axis.
C2_NoneIsProper ==
    (Walked /\ improper_cell = None) => Proper(cube, size)

\* Moves were made and the cube is proper again, and no longer the cyclic one.
C2_Witness ==
    /\ pc = "shuffle"
    /\ size = 3
    /\ i > 1
    /\ improper_cell = None
    /\ cube # new_cyclic(3)

\* C3: the cube holds at most one Improper cell and improper_cell names it:
\* improper_cell = Some(c) iff c is the Improper cell, None iff there is none.
C3_ImproperInSync ==
    Walked =>
        LET improper == CellsIn(cube, size, "Improper")
        IN  /\ Cardinality(improper) <= 1
            /\ (improper_cell = None) <=> (improper = {})
            /\ improper_cell # None => improper = {improper_cell[1]}

\* A move left the cube with an Improper cell.
C3_Witness ==
    /\ pc = "shuffle"
    /\ i > 0
    /\ improper_cell # None
    /\ At(cube, improper_cell[1]) = "Improper"

\* C4 as stated: the number of On cells is n^2 in every state of the walk,
\* the states with an Improper cell included.
C4_OnCountAlways ==
    Walked => Cardinality(CellsIn(cube, size, "On")) = size * size

\* C4, amended: in every state of the walk the number of On cells is n^2 while
\* improper_cell is None and n^2 + 1 while a cell is Improper (the number of On
\* cells minus the number of Improper cells is n^2 throughout).
C4_OnCount ==
    Walked =>
        LET on == Cardinality(CellsIn(cube, size, "On"))
        IN  /\ on = size * size + (IF improper_cell = None THEN 0 ELSE 1)
            /\ on - Cardinality(CellsIn(cube, size, "Improper")) = size * size

\* An improper cube reached after several moves, holding n^2 + 1 On cells.
C4_Witness ==
    /\ pc = "shuffle"
    /\ i > 2
    /\ improper_cell # None
    /\ Cardinality(CellsIn(cube, size, "On")) = size * size + 1

\* C5: for n >= 2 shuffle terminates, and it returns with improper_cell =
\* None (under the fairness of FairSpec).
C5_ShuffleTerminates ==
    (size >= 2 /\ pc = "shuffle") ~> (pc = "shuffled" /\ improper_cell = None)

\* The trailing loop of shuffle is running on an improper cube.
C5_Witness ==
    /\ pc = "shuffle"
    /\ size >= 2
    /\ i = size * size * size
    /\ improper_cell # None

\* C6: new_cyclic(n), n >= 2, returns a cube with improper_cell = None whose
\* cell (x, y, z) is On iff z = (x + y) mod n and Off otherwise, and whose
\* as_latin_square has (x + y) mod n at row x, column y.
C6_CyclicCube ==
    (pc = "shuffle" /\ i = 0 /\ size >= 2) =>
        /\ improper_cell = None
        /\ \A p \in Cells(size) :
              At(cube, p) = IF p.z = (p.x + p.y) % size THEN "On" ELSE "Off"
        /\ \A x \in Idx(size), y \in Idx(size) :
              as_latin_square(cube, size)[x][y] = (x + y) % size
        /\ size = 3 =>
              as_latin_square(cube, size) =
                  [x \in 0 .. 2 |-> CASE x = 0 -> [y \in 0 .. 2 |-> <<0, 1, 2>>[y + 1]]
                                      [] x = 1 -> [y \in 0 .. 2 |-> <<1, 2, 0>>[y + 1]]
                                      [] OTHER -> [y \in 0 .. 2 |-> <<2, 0, 1>>[y + 1]]]

\* The cube of order 3 right after its construction.
C6_Witness ==
    /\ pc = "shuffle"
    /\ i = 0
    /\ size = 3
    /\ At(cube, Coordinate(2, 2, 1)) = "On"

\* C7: with order 0 or 1 new_cyclic / new_random end in an invalid-order
\* error: no cube is returned, the walk is not entered, no square is returned.
C7_OrderRejected ==
    size < 2 => pc \notin {"shuffle", "shuffled", "done"}

\* C8: LatinSquare::new_cyclic(n), n >= 2, is a latin square over 1..n whose
\* rows are each the previous row shifted by one cell (1 2 3 / 2 3 1 / 3 1 2).
C8_CyclicSquare ==
    (pc = "cyclic" /\ size >= 2) =>
        /\ IsLatin(square, size, 1 .. size)
        /\ \A r \in 1 .. (size - 1), c \in Idx(size) :
              square[r][c] = square[r - 1][(c + 1) % size]
        /\ \A c \in Idx(size) : square[0][c] = c + 1

\* The smallest element of a non-empty set of indices.
MinOf(S) == CHOOSE k \in S : \A m \in S : k <= m

\* Index of the first / second On cell of the line along `axis` through p.
FirstOn(c, n, p, axis) == MinOf(OnAlong(c, n, p, axis))

SecondOn(c, n, p, axis) == MinOf(OnAlong(c, n, p, axis) \ {FirstOn(c, n, p, axis)})

\* The partner cell of origin o when pick k takes the first On cell of its axis
\* iff takes[k].
Partner(c, n, o, takes) ==
    Coordinate(IF takes[1] THEN FirstOn(c, n, o, "X") ELSE SecondOn(c, n, o, "X"),
               IF takes[2] THEN FirstOn(c, n, o, "Y") ELSE SecondOn(c, n, o, "Y"),
               IF takes[3] THEN FirstOn(c, n, o, "Z") ELSE SecondOn(c, n, o, "Z"))

Level(e) == CASE e = "On" -> 1 [] e = "Off" -> 0 [] OTHER -> 0 - 1

EntryAt(v) == CASE v = 1 -> "On" [] v = 0 -> "Off" [] v = 0 - 1 -> "Improper" [] OTHER -> "invalid"

Raised(o, w) ==
    {Coordinate(o.x, o.y, o.z), Coordinate(o.x, w.y, w.z),
     Coordinate(w.x, w.y, o.z), Coordinate(w.x, o.y, w.z)}

Lowered(o, w) ==
    {Coordinate(o.x, o.y, w.z), Coordinate(o.x, w.y, o.z),
     Coordinate(w.x, o.y, o.z), Coordinate(w.x, w.y, w.z)}

\* Cube c with the cells of Raised(o, w) one state up and those of
\* Lowered(o, w) one state down.
Flipped(c, n, o, w) ==
    [x \in Idx(n) |-> [y \in Idx(n) |-> [z \in Idx(n) |->
        EntryAt(Level(c[x][y][z])
                + (IF Coordinate(x, y, z) \in Raised(o, w) THEN 1 ELSE 0)
                - (IF Coordinate(x, y, z) \in Lowered(o, w) THEN 1 ELSE 0))]]]

Coins == BOOLEAN \X BOOLEAN \X BOOLEAN

AllFirst == <<TRUE, TRUE, TRUE>>

\* C9 as stated: a move made while improper_cell is recorded starts from that
\* cell and takes the first On cell on each axis; a move made while none is
\* recorded starts from an Off cell and takes the first or the second On cell
\* on each axis.
C9_FirstWhenImproper ==
    [][ (pc = "shuffle" /\ size >= 2 /\ cube' # cube) =>
            IF improper_cell # None
            THEN cube' = Flipped(cube, size, improper_cell[1],
                                 Partner(cube, size, improper_cell[1], AllFirst))
            ELSE \E o \in CellsIn(cube, size, "Off") :
                 \E x \in OnAlong(cube, size, o, "X"), y \in OnAlong(cube, size, o, "Y"),
                    z \in OnAlong(cube, size, o, "Z") :
                        cube' = Flipped(cube, size, o, Coordinate(x, y, z)) ]_vars

\* C9, amended: while improper_cell is recorded move_cell starts from that
\* cell, whatever cell sampling would give, and each of its three picks takes
\* the first or the second On cell of its axis as its coin decides (each axis
\* through the cell holds two On cells); while none is recorded move_cell
\* starts from the sampled Off cell and each pick takes the first On cell of
\* its axis whatever a coin would show.
C9_PicksByCase ==
    [](  (pc = "shuffle" /\ size >= 2) =>
            IF improper_cell # None
            THEN /\ \A axis \in SearchCoord :
                      Cardinality(OnAlong(cube, size, improper_cell[1], axis)) = 2
                 /\ \A zero \in Cells(size), coins \in Coins :
                      move_cell(cube, size, improper_cell, zero, coins).cube
                        = Flipped(cube, size, improper_cell[1],
                                  Partner(cube, size, improper_cell[1], coins))
            ELSE \A zero \in CellsIn(cube, size, "Off"), coins \in Coins :
                      move_cell(cube, size, improper_cell, zero, coins).cube
                        = Flipped(cube, size, zero, Partner(cube, size, zero, AllFirst)) )

\* A move from an improper cube of order 3 is about to be made, and taking the
\* second On cell on every axis gives another cube than taking the first.
C9_Witness ==
    /\ pc = "shuffle"
    /\ size = 3
    /\ i > 0
    /\ improper_cell # None
    /\ move_cell(cube, size, improper_cell, Coordinate(0, 0, 0), <<FALSE, FALSE, FALSE>>).cube
         # move_cell(cube, size, improper_cell, Coordinate(0, 0, 0), AllFirst).cube

\* C10: for n >= 2 no sequence of moves reaches a fatal failure: no toggle_on
\* of an On cell, no toggle_off of an Improper cell, no axis search without an
\* On cell, no cube index out of bounds.
C10_NoFatal ==
    Walked => (pc # "panic" /\ panic = "")

\* The trailing loop of shuffle made a move from an improper cube of order 3
\* into another improper cube, and nothing has failed.
C10_Witness ==
    /\ pc = "shuffle"
    /\ size = 3
    /\ i = size * size * size
    /\ improper_cell # None
    /\ Cardinality(OnAlong(cube, size, improper_cell[1], "X")) = 2
    /\ panic = ""

\* The cells at which cubes c and d of order n differ.
Changed(c, d, n) ==
    {Coordinate(t[1], t[2], t[3]) :
        t \in {u \in Idx(n) \X Idx(n) \X Idx(n) :
                  c[u[1]][u[2]][u[3]] # d[u[1]][u[2]][u[3]]}}

\* C11: one move with origin o = (x1,y1,z1) and picked partners w = (x2,y2,z2),
\* x2 # x1, y2 # y1, z2 # z1, changes exactly eight pairwise distinct cells: it
\* raises (x1,y1,z1), (x1,y2,z2), (x2,y2,z1), (x2,y1,z2) by one state and lowers
\* (x1,y1,z2), (x1,y2,z1), (x2,y1,z1), (x2,y2,z2) by one state; every other
\* cell and the size are unchanged.
C11_EightCells ==
    [][ (pc = "shuffle" /\ size >= 2 /\ <<cube, improper_cell, i>>' # <<cube, improper_cell, i>>) =>
            /\ size' = size
            /\ \E changed \in {Changed(cube, cube', size)} :
               \E o \in (IF improper_cell # None THEN {improper_cell[1]}
                                                 ELSE CellsIn(cube, size, "Off") \cap changed) :
               \E x2 \in OnAlong(cube, size, o, "X") \ {o.x},
                  y2 \in OnAlong(cube, size, o, "Y") \ {o.y},
                  z2 \in OnAlong(cube, size, o, "Z") \ {o.z} :
                    LET w == Coordinate(x2, y2, z2)
                    IN  /\ Cardinality(Raised(o, w) \cup Lowered(o, w)) = 8
                        /\ changed = Raised(o, w) \cup Lowered(o, w)
                        /\ \A p \in Raised(o, w) :
                              Level(At(cube', p)) = Level(At(cube, p)) + 1
                        /\ \A p \in Lowered(o, w) :
                              Level(At(cube', p)) = Level(At(cube, p)) - 1 ]_vars

\* The first move on the cyclic cube of order 3 has been made: eight cells
\* differ from the cube new_cyclic built.
C11_Witness ==
    /\ pc = "shuffle"
    /\ size = 3
    /\ i = 1
    /\ Cardinality(Changed(new_cyclic(3), cube, 3)) = 8

\* The values take_first can be passed as, and what a coin can show.
TakeFirst == {None, Some(TRUE), Some(FALSE)}

\* What take_first resolves to under the coin.
Resolved(take_first, coin) == IF take_first = None THEN coin ELSE take_first[1]

\* The cells whose coordinate on `axis` is 0: one per line along `axis`.
LineStarts(n, axis) == {p \in Cells(n) : search_axis(p, axis) = 0}

\* C12: pick_coordinate ignores the argument on the searched axis; on the line
\* fixed by the two other coordinates it returns the smallest index of an On
\* cell when take_first resolves to true and the second smallest, strictly
\* greater than the first, when take_first resolves to false and the line has
\* such a cell.  The argument on the searched axis ranges over 0..n.
C12_PickCoordinate ==
    []( (pc = "shuffle" /\ size >= 2) =>
          \A axis \in SearchCoord :
          \A p \in LineStarts(size, axis) :
          \A k \in 0 .. size, take_first \in TakeFirst, coin \in BOOLEAN :
            LET on == OnAlong(cube, size, p, axis)
                q == OnLine(p, axis, k)
                r == pick_coordinate(cube, size, q.x, q.y, q.z, axis, take_first, coin)
            IN  /\ (Resolved(take_first, coin) /\ on # {}) =>
                      (r.panic = "" /\ r.val = FirstOn(cube, size, p, axis))
                /\ (~Resolved(take_first, coin) /\ Cardinality(on) >= 2) =>
                      /\ r.panic = ""
                      /\ r.val = SecondOn(cube, size, p, axis)
                      /\ r.val > FirstOn(cube, size, p, axis) )

\* The cube is improper, and on the Y line through the improper cell, asked
\* from the far end of the line, pick_coordinate returns the first On index
\* for Some(true) and a greater one for Some(false).
C12_Witness ==
    /\ pc = "shuffle"
    /\ size = 3
    /\ improper_cell # None
    /\ LET o == improper_cell[1]
           first == pick_coordinate(cube, size, o.x, size, o.z, "Y", Some(TRUE), TRUE)
           second == pick_coordinate(cube, size, o.x, size, o.z, "Y", Some(FALSE), TRUE)
       IN  /\ first.panic = "" /\ second.panic = ""
           /\ first.val < second.val
           /\ At(cube, Coordinate(o.x, first.val, o.z)) = "On"
           /\ At(cube, Coordinate(o.x, second.val, o.z)) = "On"

\* C13: find_on_cell_along_axis, started at index k (0..n) of a line, returns
\* None whenever the line has no On cell at an index >= k, k = n included,
\* returns Some of the first On index >= k otherwise, and never reads a cell
\* outside 0..n-1.
C13_NoneWhenAbsent ==
    (pc = "shuffle" /\ size >= 2) =>
        \A axis \in SearchCoord :
        \A p \in LineStarts(size, axis) :
        \A k \in 0 .. size :
            LET later == {j \in OnAlong(cube, size, p, axis) : j >= k}
                r == find_on_cell_along_axis(cube, size, OnLine(p, axis, k), axis)
            IN  /\ r.res # "index out of bounds"
                /\ later = {} => r.res = "None"
                /\ later # {} => (r.res = "Some" /\ search_axis(r.pos, axis) = MinOf(later))

\* C14: shuffle makes exactly n^3 moves whatever the cube looks like in between
\* (i counts them: it grows by one with each such move and by nothing else),
\* then moves only while a cell is improper; it returns in the first state
\* with i = n^3 and no improper cell, never earlier, and no move follows.
C14_MixThenCleanup ==
    [][ /\ (pc = "shuffle" /\ size >= 2 /\ cube' # cube) =>
              /\ pc' = "shuffle"
              /\ IF i < size * size * size
                 THEN i' = i + 1
                 ELSE improper_cell # None /\ i' = i
        /\ i' # i => (pc = "shuffle" /\ i' = i + 1 /\ cube' # cube)
        /\ (pc = "shuffle" /\ i = size * size * size /\ improper_cell = None) =>
              (pc' = "shuffled" /\ cube' = cube)
        /\ pc' = "shuffled" =>
              (i = size * size * size /\ improper_cell = None /\ cube' = cube)
        /\ pc \in {"shuffled", "done"} =>
              (cube' = cube /\ improper_cell' = improper_cell /\ i' = i) ]_vars

\* shuffle has returned for order 3, after 27 counted moves, with another
\* cube than the cyclic one.
C14_Witness ==
    /\ pc = "shuffled"
    /\ size = 3
    /\ i = 27
    /\ improper_cell = None
    /\ cube # new_cyclic(3)

\* Entry k of the line of cube c along `axis` whose two other coordinates are
\* a and b (in the order x, y, z).
LineEntry(c, axis, a, b, k) ==
    CASE axis = "X" -> c[k][a][b]
      [] axis = "Y" -> c[a][k][b]
      [] OTHER -> c[a][b][k]

\* as_int summed over the entries k..n-1 of that line.
RECURSIVE LineSum(_, _, _, _, _, _)
LineSum(c, n, axis, a, b, k) ==
    IF k >= n THEN 0
    ELSE as_int(LineEntry(c, axis, a, b, k)) + LineSum(c, n, axis, a, b, k + 1)

\* The line along `axis` with other coordinates a and b passes through cell q.
Through(axis, a, b, q) ==
    CASE axis = "X" -> a = q.y /\ b = q.z
      [] axis = "Y" -> a = q.x /\ b = q.z
      [] OTHER -> a = q.x /\ b = q.y

\* C15: in every state of the walk the signed sum (On = 1, Off = 0,
\* Improper = -1) of every line of every axis is 1; hence while a cell is
\* improper each of the three lines through it holds exactly two On cells and
\* every other line exactly one.
C15_LineSums ==
    []( Walked =>
          \A axis \in SearchCoord, a \in Idx(size), b \in Idx(size) :
            /\ LineSum(cube, size, axis, a, b, 0) = 1
            /\ improper_cell # None =>
                  OnCountOfLine(cube, size, axis, a, b) =
                      IF Through(axis, a, b, improper_cell[1]) THEN 2 ELSE 1 )

\* After at least two moves a cell of the cube of order 3 is Improper, counted
\* as -1, and its Z line holds two On cells.
C15_Witness ==
    /\ pc = "shuffle"
    /\ size = 3
    /\ i >= 2
    /\ improper_cell # None
    /\ as_int(At(cube, improper_cell[1])) = 0 - 1
    /\ OnCountOfLine(cube, size, "Z", improper_cell[1].x, improper_cell[1].y) = 2

\* The cubes, with their improper_cell, one move_cell call can leave behind
\* when called on s: one per Off cell find_off_cell can sample while no cell
\* is improper, one per outcome of the three coins otherwise.
Moves(s, n) ==
    LET results ==
            IF s.improper_cell = None
            THEN {move_cell(s.cube, n, s.improper_cell, zero, AllFirst) :
                      zero \in CellsIn(s.cube, n, "Off")}
            ELSE {move_cell(s.cube, n, s.improper_cell, Coordinate(0, 0, 0), coins) :
                      coins \in Coins}
    IN  {[cube |-> r.cube, improper_cell |-> r.improper_cell] :
            r \in {t \in results : t.panic = ""}}

\* The for loop of shuffle: what k further move_cell calls can leave behind
\* when started from one of S.
RECURSIVE Mixed(_, _, _)
Mixed(S, n, k) ==
    IF k = 0 THEN S ELSE Mixed(UNION {Moves(s, n) : s \in S}, n, k - 1)

\* The trailing loop of shuffle: what it can pass through when entered in one
\* of S, moving on only from the states with an improper cell.
RECURSIVE CleanedUp(_, _)
CleanedUp(S, n) ==
    LET T == S \cup UNION {Moves(s, n) : s \in {t \in S : t.improper_cell # None}}
    IN  IF T = S THEN S ELSE CleanedUp(T, n)

\* The squares new_cyclic(n) followed by shuffle and as_latin_square can give.
ShuffleResults(n) ==
    LET start == [cube |-> new_cyclic(n), improper_cell |-> None]
        final == {s \in CleanedUp(Mixed({start}, n, n * n * n), n) :
                     s.improper_cell = None}
    IN  {as_latin_square(s.cube, n) : s \in final}

\* All latin squares of order n over the symbols 0..n-1.
LatinSquares(n) ==
    {sq \in [Idx(n) -> [Idx(n) -> Idx(n)]] : IsLatin(sq, n, Idx(n))}

\* C16: for n = 2 and n = 3 every latin square of order n is a possible
\* result of new_cyclic(n) followed by shuffle; in particular both squares of
\* order 2 can be produced.
C16_EverySquarePossible ==
    (pc = "shuffle" /\ i = 0 /\ size \in 2 .. 3) =>
        /\ cube = new_cyclic(size)
        /\ LatinSquares(size) \subseteq ShuffleResults(size)

\* The largest member of a non-empty set of indices.
MaxOf(S) == CHOOSE k \in S : \A m \in S : m <= k

\* The largest index of an On cell of column col, 0 when it has none.
LargestOnOrZero(col, n) ==
    LET on == {z \in Idx(n) : col[z] = "On"}
    IN  IF on = {} THEN 0 ELSE MaxOf(on)

\* Every column a cube of order n can hold at one (x, y).
Columns(n) == [Idx(n) -> CubeEntry]

\* C17: as_latin_square signals no error and leaves the cube as it is; for
\* each (x, y) it records the largest z whose cell (x, y, z) is On (the last
\* write wins when several are On) and 0 when no cell of the line is On; for
\* a proper cube that is the unique On symbol.  The columns read are those of
\* every cube of the walk and, put in place of each column of the cyclic cube,
\* every column over {On, Off, Improper}.
C17_LastWriteWins ==
    /\ []( (pc = "shuffle" /\ size >= 2) =>
              \A x \in Idx(size), y \in Idx(size) :
                /\ as_latin_square(cube, size)[x][y] = LargestOnOrZero(cube[x][y], size)
                /\ improper_cell = None =>
                      {z \in Idx(size) : cube[x][y][z] = "On"}
                          = {as_latin_square(cube, size)[x][y]}
                /\ i = 0 =>
                      \A col \in Columns(size) :
                          as_latin_square([cube EXCEPT ![x][y] = col], size)[x][y]
                              = LargestOnOrZero(col, size) )
    /\ [][ pc = "shuffled" =>
              /\ pc' = "done"
              /\ panic' = ""
              /\ cube' = cube
              /\ \A x \in Idx(size), y \in Idx(size) :
                    square'[x][y] = LargestOnOrZero(cube[x][y], size) ]_vars

\* A cube of order 3 with an improper cell whose column holds two On cells:
\* as_latin_square records the larger of the two indices there.
C17_Witness ==
    /\ pc = "shuffle"
    /\ size = 3
    /\ improper_cell # None
    /\ LET o == improper_cell[1]
           on == {z \in Idx(size) : cube[o.x][o.y][z] = "On"}
       IN  /\ Cardinality(on) = 2
           /\ as_latin_square(cube, size)[o.x][o.y] = MaxOf(on)
           /\ as_latin_square(cube, size)[o.x][o.y] # MinOf(on)

====
